---- MODULE Spec2Model ----
(***************************************************************************)
(* Model of the ethui browser extension's background connection manager:   *)
(* one per-tab session (setupProviderConnection) with its App and Fallback *)
(* socket adapters (createAppConnection / createFallbackConnection), the   *)
(* availability probes, the app-check and backoff timers, and the global   *)
(* connection state (setConnectionState, checkConnection).                 *)
(*                                                                         *)
(* Time is abstracted: a timer that is set may fire at any later step, a   *)
(* probe resolves at any later step with the reachability of its endpoint  *)
(* at that step.  The app-check interval (5000 ms) is longer than a probe  *)
(* (2000 ms timeout), so at most one app-check probe is in flight.         *)
(***************************************************************************)
EXTENDS Integers, Sequences, FiniteSets, TLC

\* ---------------------------------------------------------------- bounds
MaxMsgs == 2      \* page messages sent during a run
MaxCalls == 4     \* setConnectionState calls in the broadcaster-only runs
MaxFrames == 2    \* inbound frames recorded in the frame runs
MaxProbes == 3    \* availability probes started in the probe runs
MaxPorts == 4     \* ports that connect in the registry runs
MaxChecks == 3    \* checkConnection invocations in the check runs

Msgs == 1..MaxMsgs
Kinds == {"app", "fallback"}

VARIABLES
  appUp, fbUp,              \* reachability of the App and Fallback endpoints
  appConnection,            \* session: the App adapter object, or Null
  fallbackConnection,       \* session: the Fallback adapter object, or Null
  orphans,                  \* adapter objects the session no longer refers
                            \* to whose sockets can still deliver events
  usingFallback,
  appCheckTimer,            \* the setInterval handle is set
  pendingMessages,
  isInitializing,
  initAtApp,                \* initializeConnection runs awaiting checkAppAvailable
  initAtFb,                 \* initializeConnection runs awaiting switchToFallbackConnection
  nSwitch,                  \* switchToFallbackConnection runs started by handleAppDisconnect
  nRetry,                   \* pending 1000 ms retry timeouts
  tickProbe,                \* an app-check tick is awaiting checkAppAvailable
  portOpen,                 \* the page's port has not disconnected
  activeConnections,        \* the session's tab id is in the activeConnections map
  globalConnectionState,
  hasShownNotification,
  connectionSource,
  nextId,                   \* sequence number of the next page message
  handed,                   \* per message: how often an adapter's send got it
  posted,                   \* per message: responses posted to the page
  calls,                    \* broadcaster-only runs: the states passed so far
  notified,                 \* broadcaster-only runs: whether each call notified
  frames,                   \* frame runs: what the message handler did with each
                            \* inbound frame
  probe,                    \* probe runs: the availability probe last started
  nProbes,                  \* probe runs: probes started so far
  reqs,                     \* session: ids in the request table
  pagePosts,                \* frame runs: the values posted to the page
  uiReply,                  \* popup runs: the request last handled and
                            \* the response sent for it
  ports,                    \* registry runs: per port new, connected, gone
  sessions,                 \* registry runs: ports a session was set up for
  registry,                 \* registry runs: per tab id the session whose
                            \* entry activeConnections holds, or 0
  swept,                    \* registry runs: the sessions the last devMode
                            \* change called close() on
  check,                    \* check runs: the checkConnection invocation
                            \* last started
  nChecks,                  \* check runs: invocations started so far
  broadcasts,               \* broadcast runs: what each setConnectionState
                            \* call did
  tabSock                   \* tab runs: per tab the socket of its session's
                            \* active adapter

envVars == <<appUp, fbUp>>
adVars == <<appConnection, fallbackConnection, orphans>>
sessVars == <<usingFallback, appCheckTimer, pendingMessages, isInitializing>>
asyncVars == <<initAtApp, initAtFb, nSwitch, nRetry, tickProbe>>
portVars == <<portOpen, activeConnections>>
globVars == <<globalConnectionState, hasShownNotification, connectionSource>>
ghostVars == <<nextId, handed, posted>>
regVars == <<ports, sessions, registry, swept>>
extVars == <<check, nChecks, broadcasts, tabSock>>
compVars == <<calls, notified, frames, probe, nProbes, pagePosts, uiReply,
              regVars, extVars>>
traceVars == <<calls, notified, frames, probe, nProbes, reqs, pagePosts,
               uiReply, regVars, extVars>>
vars == <<appUp, fbUp, appConnection, fallbackConnection, orphans,
          usingFallback, appCheckTimer, pendingMessages, isInitializing,
          initAtApp, initAtFb, nSwitch, nRetry, tickProbe, portOpen,
          activeConnections, globalConnectionState, hasShownNotification,
          connectionSource, nextId, handed, posted, calls, notified,
          frames, probe, nProbes, reqs, pagePosts, uiReply, ports,
          sessions, registry, swept, check, nChecks, broadcasts, tabSock>>

\* ------------------------------------------------------- socket adapter

\* An adapter object: the closure variables ws (a socket is referenced),
\* isConnectingFlag, intentionalClose and queue, and the state of the
\* underlying socket:
\*   none       no socket, or every event of the last one was delivered
\*   connecting created by initWebSocket, not yet open
\*   open
\*   errored    failed: error event delivered, close event still to come
\*   closingE   close() called while connecting: error, then close to come
\*   closing    close() called: close event still to come
\* wire lists what was written to the open socket, flushed counts how many
\* of these the open handler wrote from the queue, answered the requests
\* the backend has answered on this socket.
Null ==
  [kind |-> "null", ws |-> FALSE, isConnectingFlag |-> FALSE,
   intentionalClose |-> FALSE, queue |-> <<>>, sock |-> "none",
   wire |-> <<>>, flushed |-> 0, answered |-> {}]

NewAdapter(k) == [Null EXCEPT !.kind = k]

Up(k) == IF k = "app" THEN appUp ELSE fbUp

IsConnected(c) == c.ws /\ ~c.isConnectingFlag

IsConnecting(c) == c.isConnectingFlag

\* ws.send(msg) of websocket-ts: written when the socket is open, otherwise
\* put in the library buffer, which is flushed only on a reconnect; no
\* backoff is configured, so the buffer is never flushed.
WsSend(c, m) ==
  IF c.sock = "open" THEN [c EXCEPT !.wire = Append(@, m)] ELSE c

InitWebSocket(c) ==
  IF c.ws \/ c.isConnectingFlag THEN c
  ELSE [c EXCEPT !.ws = TRUE, !.isConnectingFlag = TRUE, !.sock = "connecting"]

Enqueue_front(q, m) == <<m>> \o q

Enqueue(q, m) == Append(q, m)

AdapterSend_noqueue(c, m) == InitWebSocket(c)

\* send
AdapterSend(c, m) ==
  LET c1 == IF ~c.ws /\ ~c.isConnectingFlag THEN InitWebSocket(c) ELSE c
  IN IF ~c1.ws \/ c1.isConnectingFlag
     THEN [c1 EXCEPT !.queue = Enqueue(@, m)]
     ELSE WsSend(c1, m)

RECURSIVE SendAll(_, _)
SendAll(c, q) ==
  IF q = <<>> THEN c ELSE SendAll(AdapterSend(c, Head(q)), Tail(q))

ClosedSock(s) ==
  CASE s = "connecting" -> "closingE"
    [] s = "open" -> "closing"
    [] s = "errored" -> "closing"
    [] OTHER -> s

AdapterClose(c) ==
  LET c1 == IF c.ws
            THEN [c EXCEPT !.intentionalClose = TRUE, !.ws = FALSE,
                           !.sock = ClosedSock(@), !.wire = <<>>,
                           !.flushed = 0, !.answered = {}]
            ELSE c
  IN [c1 EXCEPT !.isConnectingFlag = FALSE, !.queue = <<>>]

CloseRef_drop(c) == c

\* x?.close() on a reference that may be null
CloseRef(c) == IF c = Null THEN Null ELSE AdapterClose(c)

\* onOpen: clear the connecting flag and flush the queue in order.
RECURSIVE Flush(_)
Flush(c) ==
  IF c.queue = <<>> THEN c
  ELSE Flush(WsSend([c EXCEPT !.queue = Tail(@)], Head(c.queue)))

AdapterOnOpen_noflush(c) ==
  [c EXCEPT !.isConnectingFlag = FALSE, !.sock = "open"]

AdapterOnOpen(c) ==
  Flush([c EXCEPT !.isConnectingFlag = FALSE, !.sock = "open",
                  !.flushed = Len(c.queue)])

Suppressed_never(c) == FALSE

\* the intentionalClose test of the close and error handlers
Suppressed(c) == c.intentionalClose

\* ------------------------------------------------- unreferenced adapters

\* orphans is a bag: a function from adapter objects to their number.
NoOrphans == [c \in {} |-> 0]

BagAdd(b, c) ==
  [x \in DOMAIN b \cup {c} |->
     IF x = c THEN (IF c \in DOMAIN b THEN b[c] + 1 ELSE 1) ELSE b[x]]

BagRemove(b, c) ==
  IF b[c] > 1 THEN [b EXCEPT ![c] = @ - 1]
  ELSE [x \in DOMAIN b \ {c} |-> b[x]]

\* An unreferenced adapter that holds no socket can act no more.
Inert(c) == c.sock = "none" /\ ~c.intentionalClose

\* The session drops its reference to c.
Orphan(b, c) == IF c = Null \/ Inert(c) THEN b ELSE BagAdd(b, c)

\* The adapter objects that exist, each with the place it is held at.
Handles ==
  (IF appConnection # Null
   THEN {[at |-> "app", c |-> appConnection]} ELSE {})
  \cup (IF fallbackConnection # Null
        THEN {[at |-> "fallback", c |-> fallbackConnection]} ELSE {})
  \cup {[at |-> "orphan", c |-> c] : c \in DOMAIN orphans}

\* The adapter at h becomes c2.
Put(h, c2) ==
  /\ appConnection' = IF h.at = "app" THEN c2 ELSE appConnection
  /\ fallbackConnection' = IF h.at = "fallback" THEN c2 ELSE fallbackConnection
  /\ orphans' = IF h.at = "orphan"
                THEN Orphan(BagRemove(orphans, h.c), c2) ELSE orphans

RECURSIVE SeqSet(_)
SeqSet(q) == IF q = <<>> THEN {} ELSE {Head(q)} \cup SeqSet(Tail(q))

\* ------------------------------------------------ connection state

ShowsNotification_noflag(state) ==
  state = "disconnected" /\ globalConnectionState # "disconnected"

ShowsNotification(state) ==
  /\ state = "disconnected"
  /\ globalConnectionState # "disconnected"
  /\ ~hasShownNotification

\* The source tag passed by the adapters is kept with the state.
SourceAfterSet(source) == source

SetConnectionState(state, source) ==
  /\ globalConnectionState' = state
  /\ hasShownNotification' =
       IF state = "connected" THEN FALSE
       ELSE IF ShowsNotification(state) THEN TRUE
       ELSE hasShownNotification
  /\ connectionSource' = SourceAfterSet(source)

ResetConnectionState ==
  /\ globalConnectionState' = "unknown"
  /\ connectionSource' = "none"
  /\ UNCHANGED hasShownNotification

\* checkConnection: probe the configured (App) endpoint, set and return
\* "connected" if it opens and "disconnected" otherwise.
CheckResult == IF appUp THEN "connected" ELSE "disconnected"

\* A check-connection request, or get-connection-state while unknown.
CheckConnection ==
  /\ \E req \in {"check-connection", "get-connection-state"} :
       req = "get-connection-state" => globalConnectionState = "unknown"
  /\ SetConnectionState(CheckResult, "none")
  /\ UNCHANGED <<envVars, adVars, sessVars, asyncVars, portVars, ghostVars,
                 traceVars>>

\* ------------------------------------------------------------- session

InitBlocked_never == FALSE

InitBlocked_always == TRUE

\* the single-flight guard of initializeConnection
InitBlocked == isInitializing

\* initializeConnection up to its first await.
StartInitialize ==
  IF InitBlocked
  THEN UNCHANGED <<isInitializing, initAtApp>>
  ELSE /\ isInitializing' = TRUE
       /\ initAtApp' = initAtApp + 1

MarkHanded(h, q) ==
  [m \in Msgs |-> IF m \in SeqSet(q) THEN h[m] + 1 ELSE h[m]]

PendingAfterFlush_keep == pendingMessages

\* pendingMessages = [] after the flush loop
PendingAfterFlush == <<>>

\* the branch sendMessage takes
SendTarget ==
  IF usingFallback /\ fallbackConnection # Null THEN "fallback"
  ELSE IF appConnection # Null THEN "app"
  ELSE "queue"

\* reqs.set(req.id, req) when the id is truthy
ReqsAfter(table, id) == IF id # 0 THEN table \cup {id} ELSE table

\* port.onMessage: record the request, then sendMessage(msg)
PageMessage ==
  /\ portOpen
  /\ nextId <= MaxMsgs
  /\ nextId' = nextId + 1
  /\ reqs' = ReqsAfter(reqs, nextId)
  /\ IF SendTarget = "fallback"
     THEN /\ fallbackConnection' = AdapterSend(fallbackConnection, nextId)
          /\ handed' = [handed EXCEPT ![nextId] = @ + 1]
          /\ UNCHANGED <<appConnection, pendingMessages, isInitializing,
                         initAtApp>>
     ELSE IF SendTarget = "app"
     THEN /\ appConnection' = AdapterSend(appConnection, nextId)
          /\ handed' = [handed EXCEPT ![nextId] = @ + 1]
          /\ UNCHANGED <<fallbackConnection, pendingMessages, isInitializing,
                         initAtApp>>
     ELSE /\ pendingMessages' = Append(pendingMessages, nextId)
          /\ StartInitialize
          /\ UNCHANGED <<appConnection, fallbackConnection, handed>>
  /\ UNCHANGED <<envVars, orphans, usingFallback, appCheckTimer, initAtFb,
                 nSwitch, nRetry, tickProbe, portVars, globVars, posted,
                 compVars>>

RetryScheduled_none(n) == n

RetryScheduled_twice(n) == n + 2

\* setTimeout(..., 1000)
RetryScheduled(n) == n + 1

TimerAfterStart_keep == appCheckTimer

\* startAppCheck(): the interval is set afterwards, newly or already
TimerAfterStart == TRUE

\* switchToFallbackConnection after its await of checkFallbackAvailable.
SwitchToFallbackBody ==
  IF ~fbUp
  THEN /\ SetConnectionState("disconnected", "none")
       /\ nRetry' = RetryScheduled(nRetry)
       /\ UNCHANGED <<adVars, usingFallback, appCheckTimer, pendingMessages,
                      activeConnections, handed>>
  ELSE /\ orphans' = Orphan(Orphan(orphans, CloseRef(appConnection)),
                            fallbackConnection)
       /\ appConnection' = Null
       /\ usingFallback' = TRUE
       /\ fallbackConnection' = SendAll(NewAdapter("fallback"), pendingMessages)
       /\ activeConnections' = TRUE
       /\ handed' = MarkHanded(handed, pendingMessages)
       /\ pendingMessages' = PendingAfterFlush
       /\ appCheckTimer' = TimerAfterStart
       /\ UNCHANGED <<globVars, nRetry>>

\* initializeConnection resumed with the result of checkAppAvailable.
InitAppResolve ==
  /\ initAtApp > 0
  /\ initAtApp' = initAtApp - 1
  /\ IF appUp
     THEN /\ orphans' = Orphan(orphans, appConnection)
          /\ appConnection' = SendAll(NewAdapter("app"), pendingMessages)
          /\ activeConnections' = TRUE
          /\ handed' = MarkHanded(handed, pendingMessages)
          /\ pendingMessages' = PendingAfterFlush
          /\ isInitializing' = FALSE
          /\ UNCHANGED initAtFb
     ELSE /\ initAtFb' = initAtFb + 1
          /\ UNCHANGED <<orphans, appConnection, activeConnections, handed,
                         pendingMessages, isInitializing>>
  /\ UNCHANGED <<envVars, fallbackConnection, usingFallback, appCheckTimer,
                 nSwitch, nRetry, tickProbe, portOpen, globVars, nextId,
                 posted, traceVars>>

\* initializeConnection's awaited switchToFallbackConnection resolves; the
\* finally block clears isInitializing.
InitFbResolve ==
  /\ initAtFb > 0
  /\ initAtFb' = initAtFb - 1
  /\ SwitchToFallbackBody
  /\ isInitializing' = FALSE
  /\ UNCHANGED <<envVars, initAtApp, nSwitch, tickProbe, portOpen, nextId,
                 posted, traceVars>>

\* The switchToFallbackConnection started by handleAppDisconnect resolves.
SwitchFbResolve ==
  /\ nSwitch > 0
  /\ nSwitch' = nSwitch - 1
  /\ SwitchToFallbackBody
  /\ UNCHANGED <<envVars, isInitializing, initAtApp, initAtFb, tickProbe,
                 portOpen, nextId, posted, traceVars>>

\* the test of the retry timeout's callback
AnyConnected ==
  \/ (appConnection # Null /\ IsConnected(appConnection))
  \/ (fallbackConnection # Null /\ IsConnected(fallbackConnection))

\* A 1000 ms retry timeout fires.
RetryFire ==
  /\ nRetry > 0
  /\ nRetry' = nRetry - 1
  /\ IF AnyConnected
     THEN UNCHANGED <<isInitializing, initAtApp>>
     ELSE StartInitialize
  /\ UNCHANGED <<envVars, adVars, usingFallback, appCheckTimer,
                 pendingMessages, initAtFb, nSwitch, tickProbe, portVars,
                 globVars, ghostVars, traceVars>>

\* An app-check interval tick.
AppCheckTick ==
  /\ appCheckTimer
  /\ ~tickProbe
  /\ IF ~usingFallback
     THEN appCheckTimer' = FALSE /\ UNCHANGED tickProbe
     ELSE tickProbe' = TRUE /\ UNCHANGED appCheckTimer
  /\ UNCHANGED <<envVars, adVars, usingFallback, pendingMessages,
                 isInitializing, initAtApp, initAtFb, nSwitch, nRetry,
                 portVars, globVars, ghostVars, traceVars>>

TimerAfterSwitch_keep == appCheckTimer

\* stopAppCheck() in switchToAppConnection
TimerAfterSwitch == FALSE

\* The tick's checkAppAvailable resolves; switchToAppConnection if the App
\* is back and the session is still on Fallback.
AppCheckResolve ==
  /\ tickProbe
  /\ tickProbe' = FALSE
  /\ IF appUp /\ usingFallback
     THEN /\ orphans' = Orphan(Orphan(orphans, CloseRef(fallbackConnection)),
                               appConnection)
          /\ fallbackConnection' = Null
          /\ usingFallback' = FALSE
          /\ appCheckTimer' = TimerAfterSwitch
          /\ appConnection' = NewAdapter("app")
          /\ activeConnections' = TRUE
     ELSE UNCHANGED <<adVars, usingFallback, appCheckTimer, activeConnections>>
  /\ UNCHANGED <<envVars, pendingMessages, isInitializing, initAtApp,
                 initAtFb, nSwitch, nRetry, portOpen, globVars, ghostVars,
                 traceVars>>

\* closeAllConnections
CloseAll ==
  /\ appCheckTimer' = FALSE
  /\ orphans' = Orphan(Orphan(orphans, CloseRef(appConnection)),
                       CloseRef(fallbackConnection))
  /\ appConnection' = Null
  /\ fallbackConnection' = Null
  /\ pendingMessages' = <<>>

\* storage.onChanged with a devMode change.
SettingsChange ==
  /\ ResetConnectionState
  /\ IF activeConnections
     THEN CloseAll
     ELSE UNCHANGED <<appCheckTimer, adVars, pendingMessages>>
  /\ UNCHANGED <<envVars, usingFallback, isInitializing, asyncVars, portVars,
                 ghostVars, traceVars>>

\* port.onDisconnect
PortDisconnect ==
  /\ portOpen
  /\ CloseAll
  /\ activeConnections' = FALSE
  /\ portOpen' = FALSE
  /\ UNCHANGED <<envVars, usingFallback, isInitializing, asyncVars, globVars,
                 ghostVars, traceVars>>

\* ------------------------------------------------------- socket events

\* onDisconnect of an adapter of kind k: handleAppDisconnect starts a
\* switchToFallbackConnection, handleFallbackDisconnect sets the state
\* disconnected and schedules a retry.
OnDisconnect(k) ==
  IF k = "app"
  THEN /\ nSwitch' = nSwitch + 1
       /\ UNCHANGED <<nRetry, globVars>>
  ELSE /\ SetConnectionState("disconnected", "none")
       /\ nRetry' = RetryScheduled(nRetry)
       /\ UNCHANGED nSwitch

NoDisconnect == UNCHANGED <<nSwitch, nRetry, globVars>>

SockOpen(h) ==
  /\ h.c.sock = "connecting"
  /\ Up(h.c.kind)
  /\ Put(h, AdapterOnOpen(h.c))
  /\ SetConnectionState("connected", h.c.kind)
  /\ UNCHANGED <<envVars, sessVars, asyncVars, portVars, ghostVars, traceVars>>

\* The socket's error event: a failed connect, a broken connection, or a
\* socket closed before it was established.
SockError(h) ==
  /\ \/ h.c.sock \in {"connecting", "open"} /\ ~Up(h.c.kind)
     \/ h.c.sock = "closingE"
  /\ Put(h, [h.c EXCEPT !.isConnectingFlag = FALSE,
                        !.sock = IF @ = "closingE" THEN "closing" ELSE "errored",
                        !.wire = <<>>, !.flushed = 0, !.answered = {}])
  /\ IF Suppressed(h.c) THEN NoDisconnect ELSE OnDisconnect(h.c.kind)
  /\ UNCHANGED <<envVars, sessVars, initAtApp, initAtFb, tickProbe, portVars,
                 ghostVars, traceVars>>

\* intentionalClose = false in the close handler
FlagAfterClose(c) == FALSE

\* The socket's close event: after an error, after close(), or a clean
\* close by a backend that went away.
SockClose(h) ==
  /\ \/ h.c.sock \in {"errored", "closing"}
     \/ h.c.sock = "open" /\ ~Up(h.c.kind)
  /\ Put(h, [h.c EXCEPT !.ws = FALSE, !.isConnectingFlag = FALSE,
                        !.sock = "none", !.wire = <<>>, !.flushed = 0,
                        !.answered = {},
                        !.intentionalClose =
                          IF Suppressed(h.c) THEN FlagAfterClose(h.c) ELSE @])
  /\ IF Suppressed(h.c) THEN NoDisconnect ELSE OnDisconnect(h.c.kind)
  /\ UNCHANGED <<envVars, sessVars, initAtApp, initAtFb, tickProbe, portVars,
                 ghostVars, traceVars>>

\* one port.postMessage per inbound frame
PostCount(n) == n + 1

\* The backend answers a request it received on this socket; onMessage ->
\* handleMessage -> port.postMessage.
Respond(h) ==
  /\ h.c.sock = "open"
  /\ \E m \in SeqSet(h.c.wire) \ h.c.answered :
       /\ Put(h, [h.c EXCEPT !.answered = @ \cup {m}])
       /\ posted' = [posted EXCEPT ![m] = IF portOpen THEN PostCount(@) ELSE @]
  /\ UNCHANGED <<envVars, sessVars, asyncVars, portVars, globVars, nextId,
                 handed, traceVars>>

\* --------------------------------------------------------- environment

AppUp == ~appUp /\ appUp' = TRUE /\ UNCHANGED <<fbUp, adVars, sessVars,
           asyncVars, portVars, globVars, ghostVars, traceVars>>

AppDown == appUp /\ appUp' = FALSE /\ UNCHANGED <<fbUp, adVars, sessVars,
           asyncVars, portVars, globVars, ghostVars, traceVars>>

FallbackUp == ~fbUp /\ fbUp' = TRUE /\ UNCHANGED <<appUp, adVars, sessVars,
           asyncVars, portVars, globVars, ghostVars, traceVars>>

FallbackDown == fbUp /\ fbUp' = FALSE /\ UNCHANGED <<appUp, adVars, sessVars,
           asyncVars, portVars, globVars, ghostVars, traceVars>>

\* ------------------------------------------------------ inbound frames

\* The inbound text frames: the literal ping, the JSON text of a response
\* with a result, the JSON text of a response with an error, any other text.
Frames == {"ping", "json", "jsonerr", "text"}

\* JSON.parse returns for a JSON text and throws for any other text.
JsonParses(frame) == frame \in {"json", "jsonerr"}

\* JSON.parse of the n-th frame the backend emitted: an object with that
\* frame's id and its result or its error.
JsonValue(frame, n) ==
  IF frame = "jsonerr"
  THEN [id |-> n, member |-> "error"]
  ELSE [id |-> n, member |-> "result"]

PostMessage_twice(log, resp) == Append(Append(log, resp), resp)

\* handleMessage: port.postMessage(resp)
PostMessage(log, resp) == Append(log, resp)

OnMessage_noping(frame) ==
  [pong |-> 0, parsed |-> TRUE, forwarded |-> JsonParses(frame),
   threw |-> ~JsonParses(frame)]

\* The adapter's onMessage callback: what it does with one frame: pongs
\* written to the socket, whether JSON.parse was called, whether the
\* session's message callback got the value, whether it threw.
OnMessage(frame) ==
  IF frame = "ping"
  THEN [pong |-> 1, parsed |-> FALSE, forwarded |-> FALSE, threw |-> FALSE]
  ELSE [pong |-> 0, parsed |-> TRUE, forwarded |-> JsonParses(frame),
        threw |-> ~JsonParses(frame)]

\* A frame that is not the answer to a request arrives on an open socket.
\* The handler calls neither onDisconnect nor close.
Inbound(h, frame) ==
  /\ h.c.sock = "open"
  /\ Len(frames) < MaxFrames
  /\ frames' = Append(frames, [frame |-> frame, kind |-> h.c.kind,
                               did |-> OnMessage(frame)])
  /\ pagePosts' = IF OnMessage(frame).forwarded
                  THEN PostMessage(pagePosts,
                                   JsonValue(frame, Len(frames) + 1))
                  ELSE pagePosts
  /\ UNCHANGED <<envVars, adVars, sessVars, asyncVars, portVars, globVars,
                 ghostVars, extVars, calls, notified, probe, nProbes, reqs, uiReply,
                 regVars>>

\* ------------------------------------------------------------- probes

\* checkAppAvailable / checkFallbackAvailable: the throwaway socket (sock),
\* the 2000 ms timeout (timer), the number of ws.close() calls (closes) and
\* the promise (result); first is the handler whose resolve settled the
\* promise, closedBefore whether close() had been called by then, late the
\* number of resolve calls made after the promise was settled.
\*   sock: connecting, closingE (closed while connecting: its error event
\*   is still to come), closed (no further event has a handler)
NoProbe ==
  [kind |-> "none", sock |-> "none", timer |-> FALSE, closes |-> 0,
   result |-> "pending", first |-> "none", closedBefore |-> FALSE, late |-> 0]

ProbeTimerSet_none == FALSE

\* setTimeout(..., 2000)
ProbeTimerSet == TRUE

ProbeClose_skip(p) == p

\* ws.close()
ProbeClose(p) ==
  [p EXCEPT !.closes = @ + 1,
            !.sock = IF @ = "connecting" THEN "closingE"
                     ELSE IF @ = "open" THEN "closed" ELSE @]

\* resolve(v): settles the promise the first time, has no effect afterwards
ProbeResolve(p, v, handler) ==
  IF p.result = "pending"
  THEN [p EXCEPT !.result = v, !.first = handler, !.closedBefore = p.closes > 0]
  ELSE [p EXCEPT !.late = @ + 1]

\* A probe of backend k starts, once the last one's socket is done.
ProbeStart(k) ==
  /\ nProbes < MaxProbes
  /\ probe.kind = "none" \/ (probe.result # "pending" /\ probe.sock = "closed")
  /\ probe' = [NoProbe EXCEPT !.kind = k, !.sock = "connecting",
                              !.timer = ProbeTimerSet]
  /\ nProbes' = nProbes + 1
  /\ UNCHANGED <<envVars, adVars, sessVars, asyncVars, portVars, globVars,
                 ghostVars, extVars, calls, notified, frames, reqs, pagePosts, uiReply,
                 regVars>>

ProbeStep(p) ==
  /\ probe' = p
  /\ UNCHANGED <<envVars, adVars, sessVars, asyncVars, portVars, globVars,
                 ghostVars, extVars, calls, notified, frames, nProbes, reqs, pagePosts,
                 uiReply, regVars>>

\* ws.onopen: clearTimeout, ws.close(), resolve(true)
ProbeOpen ==
  /\ probe.sock = "connecting"
  /\ Up(probe.kind)
  /\ ProbeStep(ProbeResolve(
         ProbeClose([probe EXCEPT !.sock = "open", !.timer = FALSE]),
         "true", "open"))

\* ws.onerror: clearTimeout, ws.close(), resolve(false)
ProbeError ==
  /\ \/ probe.sock = "connecting" /\ ~Up(probe.kind)
     \/ probe.sock = "closingE"
  /\ ProbeStep(ProbeResolve(
         ProbeClose([probe EXCEPT !.sock = "closed", !.timer = FALSE]),
         "false", "error"))

\* the timeout callback: ws.close(), resolve(false)
ProbeTimeout ==
  /\ probe.timer
  /\ ProbeStep(ProbeResolve(ProbeClose([probe EXCEPT !.timer = FALSE]),
                            "false", "timeout"))


\* ------------------------------------------------------ popup requests

\* The control messages the runtime.onMessage listener answers.
UiRequests == {"get-connection-state", "check-connection", "get-wallet-info"}

NoReply == [req |-> "none", type |-> "none", value |-> "none"]

UiProbes_always(req) == TRUE

\* the requests for which the listener runs checkConnection
UiProbes(req) ==
  \/ req = "check-connection"
  \/ req = "get-connection-state" /\ globalConnectionState = "unknown"

\* fetchWalletInfo: a one-shot socket to the configured endpoint; the
\* wallet's data if it opens, null otherwise.
WalletInfo == IF appUp THEN "info" ELSE "null"

\* The listener handles one control message and sends its response.
UiRequest(req) ==
  /\ IF UiProbes(req)
     THEN SetConnectionState(CheckResult, "none")
     ELSE UNCHANGED globVars
  /\ uiReply' =
       IF req = "get-wallet-info"
       THEN [req |-> req, type |-> "wallet-info", value |-> WalletInfo]
       ELSE [req |-> req, type |-> "connection-state",
             value |-> globalConnectionState']
  /\ UNCHANGED <<envVars, adVars, sessVars, asyncVars, portVars, ghostVars, extVars,
                 calls, notified, frames, probe, nProbes, reqs, pagePosts,
                 regVars>>

\* ----------------------------------------------------- session registry

\* The ports that connect: ports 1 and 2 are the top-level frame of tab 1,
\* port 3 is a sub-frame of tab 2, port 4 has no sender, any further port
\* is the top-level frame of tab 2.
Ports == 1..MaxPorts

Tabs == {1, 2}

HasSender(p) == p # 4

FrameId(p) == IF p = 3 THEN 1 ELSE 0

TabId(p) == IF p <= 2 THEN 1 ELSE 2

Accepts_any(p) == TRUE

\* the early returns of the runtime.onConnect listener
Accepts(p) == HasSender(p) /\ FrameId(p) = 0

\* activeConnections.set(tabId, ...) by the session of port p
RegistrySet(p) == [registry EXCEPT ![TabId(p)] = p]

\* runtime.onConnect: setupProviderConnection registers the session.
PortConnect(p) ==
  /\ ports[p] = "new"
  /\ ports' = [ports EXCEPT ![p] = "connected"]
  /\ IF Accepts(p)
     THEN /\ sessions' = sessions \cup {p}
          /\ registry' = RegistrySet(p)
     ELSE UNCHANGED <<sessions, registry>>
  /\ UNCHANGED <<envVars, adVars, sessVars, asyncVars, portVars, globVars,
                 ghostVars, extVars, calls, notified, frames, probe, nProbes, reqs,
                 pagePosts, uiReply, swept>>

\* The port disconnects; a session's port.onDisconnect listener deletes
\* the entry of its tab id.
PortGone(p) ==
  /\ ports[p] = "connected"
  /\ ports' = [ports EXCEPT ![p] = "gone"]
  /\ registry' = IF p \in sessions
                 THEN [registry EXCEPT ![TabId(p)] = 0]
                 ELSE registry
  /\ UNCHANGED <<envVars, adVars, sessVars, asyncVars, portVars, globVars,
                 ghostVars, extVars, calls, notified, frames, probe, nProbes, reqs,
                 pagePosts, uiReply, sessions, swept>>

\* A session's initializeConnection, switchToFallbackConnection or
\* switchToAppConnection reaches its activeConnections.set.
Reregister(p) ==
  /\ p \in sessions
  /\ registry' = RegistrySet(p)
  /\ UNCHANGED <<envVars, adVars, sessVars, asyncVars, portVars, globVars,
                 ghostVars, extVars, calls, notified, frames, probe, nProbes, reqs,
                 pagePosts, uiReply, ports, sessions, swept>>

\* storage.onChanged with a devMode change: conn.close() for every entry.
DevModeChange ==
  /\ swept' = {registry[t] : t \in Tabs} \ {0}
  /\ ResetConnectionState
  /\ UNCHANGED <<envVars, adVars, sessVars, asyncVars, portVars, ghostVars, extVars,
                 calls, notified, frames, probe, nProbes, reqs, pagePosts,
                 uiReply, ports, sessions, registry>>

\* ------------------------------------------------------------ broadcast

\* updateBadge: the badge text for a state
Badge(state) == IF state = "disconnected" THEN "!" ELSE ""

Broadcasts_onchange(prev, state) == prev # state

\* whether setConnectionState calls runtime.sendMessage: unconditionally
Broadcasts(prev, state) == TRUE

\* whether the rejection of sendMessage's promise, which happens when no
\* listener exists, leaves setConnectionState's promise chain: the catch
\* handler takes it
Escapes(listening) == FALSE

\* One setConnectionState call with a popup listening or not: the state
\* passed, the state and the flag before, the state stored, the state in
\* the message sent (none when no message is sent), whether it was
\* delivered, whether a rejection escaped, the badge text set and whether
\* the notification was raised.
SetStateBroadcast(state, listening) ==
  /\ Len(broadcasts) < MaxCalls
  /\ SetConnectionState(state, "none")
  /\ broadcasts' =
       Append(broadcasts,
              [state |-> state,
               prev |-> globalConnectionState,
               flag |-> hasShownNotification,
               stored |-> globalConnectionState',
               sent |-> IF Broadcasts(globalConnectionState, state)
                        THEN globalConnectionState' ELSE "none",
               delivered |-> listening
                               /\ Broadcasts(globalConnectionState, state),
               escaped |-> Escapes(listening),
               badge |-> Badge(globalConnectionState'),
               notified |-> ShowsNotification(state)])
  /\ UNCHANGED <<envVars, adVars, sessVars, asyncVars, portVars, ghostVars,
                 calls, notified, frames, probe, nProbes, reqs, pagePosts,
                 uiReply, regVars, check, nChecks, tabSock>>

\* ----------------------------------------------------------- several tabs

\* The sessions of the tabs, each reduced to the socket of its active
\* adapter: the backend it goes to and whether it is connecting, open, or
\* broken (its backend went away; its close event is still to come).  All
\* sessions share the endpoints and the global connection state.
NoSock == [kind |-> "none", sock |-> "none"]

\* Tab t's session found backend k reachable, made an adapter for it and
\* the adapter's send started a socket.  Fallback is probed only after the
\* App was found unreachable.
TabConnects(t, k) ==
  /\ tabSock[t] = NoSock
  /\ Up(k)
  /\ k = "fallback" => ~appUp
  /\ tabSock' = [tabSock EXCEPT ![t] = [kind |-> k, sock |-> "connecting"]]
  /\ UNCHANGED <<envVars, adVars, sessVars, asyncVars, portVars, globVars,
                 ghostVars, calls, notified, frames, probe, nProbes, reqs,
                 pagePosts, uiReply, regVars, check, nChecks, broadcasts>>

\* The adapter's open handler: setConnectionState("connected", kind)
TabOpens(t) ==
  /\ tabSock[t].sock = "connecting"
  /\ tabSock' = [tabSock EXCEPT ![t].sock = "open"]
  /\ SetConnectionState("connected", tabSock[t].kind)
  /\ UNCHANGED <<envVars, adVars, sessVars, asyncVars, portVars, ghostVars,
                 calls, notified, frames, probe, nProbes, reqs, pagePosts,
                 uiReply, regVars, check, nChecks, broadcasts>>

\* The close event of tab t's broken socket: handleFallbackDisconnect sets
\* the state disconnected; handleAppDisconnect probes Fallback and sets it
\* disconnected when that is unreachable too.
TabSocketFails(t) ==
  /\ tabSock[t].sock = "broken"
  /\ tabSock' = [tabSock EXCEPT ![t] = NoSock]
  /\ IF tabSock[t].kind = "fallback" \/ ~fbUp
     THEN SetConnectionState("disconnected", "none")
     ELSE UNCHANGED globVars
  /\ UNCHANGED <<envVars, adVars, sessVars, asyncVars, portVars, ghostVars,
                 calls, notified, frames, probe, nProbes, reqs, pagePosts,
                 uiReply, regVars, check, nChecks, broadcasts>>

\* Backend k goes away: every socket to it is broken.
EndpointDown(k) ==
  /\ Up(k)
  /\ appUp' = IF k = "app" THEN FALSE ELSE appUp
  /\ fbUp' = IF k = "fallback" THEN FALSE ELSE fbUp
  /\ tabSock' = [t \in Tabs |->
                   IF tabSock[t].kind = k
                   THEN [tabSock[t] EXCEPT !.sock = "broken"]
                   ELSE tabSock[t]]
  /\ UNCHANGED <<adVars, sessVars, asyncVars, portVars, globVars, ghostVars,
                 calls, notified, frames, probe, nProbes, reqs, pagePosts,
                 uiReply, regVars, check, nChecks, broadcasts>>

\* ------------------------------------------------------ checkConnection

\* One checkConnection invocation: the throwaway socket (sock), the 3000 ms
\* timeout (timer), the resolved flag, the number of setConnectionState
\* calls (sets) with the state last passed (setTo), the number of resolve
\* calls (resolves) with the value of the first (value), and the number of
\* done calls that returned at the resolved test (late).
\*   sock: connecting, open, closingE (closed while connecting: the error
\*   event and then the close event are to come), errored (the close event
\*   is to come), closing (close() called on an open socket), closed
NoCheck ==
  [sock |-> "none", timer |-> FALSE, resolved |-> FALSE, sets |-> 0,
   setTo |-> "none", resolves |-> 0, value |-> "none", late |-> 0]

AlreadyResolved_never(c) == FALSE

\* if (resolved) return
AlreadyResolved(c) == c.resolved

\* done(state), the record after it
DoneRecord(c, state) ==
  IF AlreadyResolved(c)
  THEN [c EXCEPT !.late = @ + 1]
  ELSE [c EXCEPT !.resolved = TRUE, !.timer = FALSE, !.sets = @ + 1,
                 !.setTo = state, !.resolves = @ + 1,
                 !.value = IF c.resolves = 0 THEN state ELSE @]

\* A handler of the invocation runs: c is the record after the handler's
\* own socket call, state what it passes to done.
CheckStep(c, state) ==
  /\ check' = DoneRecord(c, state)
  /\ IF AlreadyResolved(c)
     THEN UNCHANGED globVars
     ELSE SetConnectionState(state, "none")
  /\ UNCHANGED <<envVars, adVars, sessVars, asyncVars, portVars, ghostVars,
                 calls, notified, frames, probe, nProbes, reqs, pagePosts,
                 uiReply, regVars, nChecks, broadcasts, tabSock>>

\* checkConnection is called, once the last invocation's socket is done.
CheckStart ==
  /\ nChecks < MaxChecks
  /\ check.sock \in {"none", "closed"}
  /\ check' = [NoCheck EXCEPT !.sock = "connecting", !.timer = TRUE]
  /\ nChecks' = nChecks + 1
  /\ UNCHANGED <<envVars, adVars, sessVars, asyncVars, portVars, globVars,
                 ghostVars, calls, notified, frames, probe, nProbes, reqs,
                 pagePosts, uiReply, regVars, broadcasts, tabSock>>

\* ws.onopen: done("connected"), then ws.close()
CheckOpen ==
  /\ check.sock = "connecting"
  /\ appUp
  /\ CheckStep([check EXCEPT !.sock = "closing"], "connected")

\* ws.onerror: ws.close(), then done("disconnected")
CheckError ==
  /\ \/ check.sock = "connecting" /\ ~appUp
     \/ check.sock = "closingE"
  /\ CheckStep([check EXCEPT !.sock = "errored"], "disconnected")

\* ws.onclose: done("disconnected")
CheckClose ==
  /\ check.sock \in {"errored", "closing"}
  /\ CheckStep([check EXCEPT !.sock = "closed"], "disconnected")

\* the 3000 ms timeout: ws.close(), then done("disconnected")
CheckTimeout ==
  /\ check.timer
  /\ CheckStep([check EXCEPT !.timer = FALSE,
                             !.sock = IF @ = "connecting" THEN "closingE"
                                      ELSE @],
               "disconnected")

\* -------------------------------------------------------- specifications

\* The state after setupProviderConnection registered the session.
Init ==
  /\ appUp \in BOOLEAN
  /\ fbUp \in BOOLEAN
  /\ appConnection = Null
  /\ fallbackConnection = Null
  /\ orphans = NoOrphans
  /\ usingFallback = FALSE
  /\ appCheckTimer = FALSE
  /\ pendingMessages = <<>>
  /\ isInitializing = FALSE
  /\ initAtApp = 0
  /\ initAtFb = 0
  /\ nSwitch = 0
  /\ nRetry = 0
  /\ tickProbe = FALSE
  /\ portOpen = TRUE
  /\ activeConnections = TRUE
  /\ globalConnectionState = "unknown"
  /\ hasShownNotification = FALSE
  /\ connectionSource = "none"
  /\ nextId = 1
  /\ handed = [m \in Msgs |-> 0]
  /\ posted = [m \in Msgs |-> 0]
  /\ calls = <<>>
  /\ notified = <<>>
  /\ frames = <<>>
  /\ probe = NoProbe
  /\ nProbes = 0
  /\ reqs = {}
  /\ pagePosts = <<>>
  /\ uiReply = NoReply
  /\ ports = [p \in Ports |-> "new"]
  /\ sessions = {}
  /\ registry = [t \in Tabs |-> 0]
  /\ swept = {}
  /\ check = NoCheck
  /\ nChecks = 0
  /\ broadcasts = <<>>
  /\ tabSock = [t \in Tabs |-> NoSock]

Next ==
  \/ PageMessage
  \/ InitAppResolve
  \/ InitFbResolve
  \/ SwitchFbResolve
  \/ RetryFire
  \/ AppCheckTick
  \/ AppCheckResolve
  \/ SettingsChange
  \/ PortDisconnect
  \/ CheckConnection
  \/ \E h \in Handles : SockOpen(h)
  \/ \E h \in Handles : SockError(h)
  \/ \E h \in Handles : SockClose(h)
  \/ AppUp
  \/ AppDown
  \/ FallbackUp
  \/ FallbackDown

Spec == Init /\ [][Next]_vars

\* Broadcaster-only runs: any sequence of setConnectionState calls, with the
\* states passed and whether each call raised the notification recorded.
States == {"connected", "disconnected", "unknown"}

SetStateCall(state) ==
  /\ Len(calls) < MaxCalls
  /\ SetConnectionState(state, "none")
  /\ calls' = Append(calls, state)
  /\ notified' = Append(notified, ShowsNotification(state))
  /\ UNCHANGED <<envVars, adVars, sessVars, asyncVars, portVars, ghostVars, extVars,
                 frames, probe, nProbes, reqs, pagePosts, uiReply, regVars>>

NextState == \E state \in States : SetStateCall(state)

SpecState == Init /\ [][NextState]_vars

\* Recovery runs: both backends start unreachable, the App, once reachable,
\* stays reachable, and Fallback stays unreachable at least until the
\* session holds an open App socket; the port stays connected and the
\* settings are left alone.  The event loop runs every pending promise
\* continuation and due timer, a socket to a reachable endpoint opens, and
\* the backend answers the requests it received.  The popup may ask for a
\* connection check at any time.
InitLive == Init /\ ~appUp /\ ~fbUp

FallbackUpLate == IsConnected(appConnection) /\ FallbackUp

NextLive ==
  \/ PageMessage
  \/ InitAppResolve
  \/ InitFbResolve
  \/ RetryFire
  \/ \E h \in Handles : SockOpen(h)
  \/ \E h \in Handles : Respond(h)
  \/ CheckConnection
  \/ AppUp
  \/ FallbackUpLate

SpecLive ==
  /\ InitLive
  /\ [][NextLive]_vars
  /\ WF_vars(InitAppResolve)
  /\ WF_vars(InitFbResolve)
  /\ WF_vars(RetryFire)
  /\ WF_vars(\E h \in Handles : SockOpen(h))
  /\ WF_vars(\E h \in Handles : Respond(h))

\* devMode runs: the App stays reachable, so no failover or retry occurs
\* and a run of initializeConnection is started only by sendMessage, after
\* it has put its message in pendingMessages; the devMode setting may
\* change at any time.
InitSettings == Init /\ appUp

NextSettings ==
  \/ PageMessage
  \/ InitAppResolve
  \/ SettingsChange
  \/ CheckConnection
  \/ \E h \in Handles : SockOpen(h)
  \/ \E h \in Handles : SockError(h)
  \/ \E h \in Handles : SockClose(h)
  \/ FallbackUp
  \/ FallbackDown

SpecSettings == InitSettings /\ [][NextSettings]_vars

\* Frame runs: a session connects and its backend sends frames that are
\* not answers to requests.
NextFrames ==
  \/ PageMessage
  \/ InitAppResolve
  \/ InitFbResolve
  \/ \E h \in Handles : SockOpen(h)
  \/ \E h \in Handles : \E frame \in Frames : Inbound(h, frame)

SpecFrames == Init /\ [][NextFrames]_vars

\* Probe runs: availability probes of either backend, one after the other,
\* while the endpoints come and go.  A timeout that is set fires unless it
\* is cleared; nothing makes the socket deliver an event.
NextProbe ==
  \/ \E k \in Kinds : ProbeStart(k)
  \/ ProbeOpen
  \/ ProbeError
  \/ ProbeTimeout
  \/ AppUp
  \/ AppDown
  \/ FallbackUp
  \/ FallbackDown

SpecProbe == Init /\ [][NextProbe]_vars /\ WF_vars(ProbeTimeout)

\* Popup runs: the popup's control messages arrive between the sessions'
\* setConnectionState calls while the App endpoint comes and goes.
NextUi ==
  \/ \E req \in UiRequests : UiRequest(req)
  \/ \E state \in States : SetStateCall(state)
  \/ AppUp
  \/ AppDown

SpecUi == Init /\ [][NextUi]_vars

\* Registry runs: ports connect and disconnect in any order, sessions
\* re-register as they pick a backend, and the devMode setting changes.
NextRegistry ==
  \/ \E p \in Ports : PortConnect(p)
  \/ \E p \in Ports : PortGone(p)
  \/ \E p \in Ports : Reregister(p)
  \/ DevModeChange

SpecRegistry == Init /\ [][NextRegistry]_vars

\* Check runs: checkConnection invocations, one after the other, with the
\* probe socket's events and the timeout in any order while the App
\* endpoint comes and goes.
NextCheck ==
  \/ CheckStart
  \/ CheckOpen
  \/ CheckError
  \/ CheckClose
  \/ CheckTimeout
  \/ AppUp
  \/ AppDown

SpecCheck == Init /\ [][NextCheck]_vars

\* Tab runs: the sessions of two tabs connect and lose their sockets while
\* the endpoints come and go.
NextTabs ==
  \/ \E t \in Tabs : \E k \in Kinds : TabConnects(t, k)
  \/ \E t \in Tabs : TabOpens(t)
  \/ \E t \in Tabs : TabSocketFails(t)
  \/ \E k \in Kinds : EndpointDown(k)
  \/ AppUp
  \/ FallbackUp

SpecTabs == Init /\ [][NextTabs]_vars

\* Broadcast runs: any sequence of setConnectionState calls, each with a
\* popup listening or not.
NextBroadcast ==
  \E state \in States : \E listening \in BOOLEAN :
    SetStateBroadcast(state, listening)

SpecBroadcast == Init /\ [][NextBroadcast]_vars

\* Hunt runs: the App starts unreachable and, once it is reachable, stays
\* reachable for as long as the session is marked as using Fallback; the
\* port stays connected and the settings are left alone.  The app-check
\* interval keeps ticking while it is set and every tick's probe resolves.
InitHunt == Init /\ ~appUp

AppDownOffFallback == ~usingFallback /\ AppDown

NextHunt ==
  \/ PageMessage
  \/ InitAppResolve
  \/ InitFbResolve
  \/ SwitchFbResolve
  \/ RetryFire
  \/ AppCheckTick
  \/ AppCheckResolve
  \/ \E h \in Handles : SockOpen(h)
  \/ \E h \in Handles : SockError(h)
  \/ \E h \in Handles : SockClose(h)
  \/ AppUp
  \/ AppDownOffFallback
  \/ FallbackUp
  \/ FallbackDown

SpecHunt ==
  /\ InitHunt
  /\ [][NextHunt]_vars
  /\ WF_vars(AppCheckTick)
  /\ WF_vars(AppCheckResolve)

\* ---------------------------------------------------------------- claims

Increasing(q) == \A i, j \in 1..Len(q) : i < j => q[i] < q[j]

\* A step that makes a new Fallback adapter the active one.
SwitchedToFallback == fbUp /\ (InitFbResolve \/ SwitchFbResolve)

\* A step of switchToAppConnection.
SwitchedToApp == appUp /\ usingFallback /\ AppCheckResolve

\* C1: at a backend switch every message accepted and not yet written to a
\* socket, in pendingMessages or in the outgoing adapter's queue, is in the
\* new active adapter's queue afterwards, in the order it was sent.
C1_NoMessageLostOnSwitch ==
  [][/\ SwitchedToFallback =>
          /\ SeqSet(appConnection.queue) \cup SeqSet(pendingMessages)
               \subseteq SeqSet(fallbackConnection'.queue)
          /\ Increasing(fallbackConnection'.queue)
     /\ SwitchedToApp =>
          /\ SeqSet(fallbackConnection.queue) \cup SeqSet(pendingMessages)
               \subseteq SeqSet(appConnection'.queue)
          /\ Increasing(appConnection'.queue)]_vars

\* C2: every page message is passed to the send of an adapter at most once,
\* so never to an App adapter and also to a Fallback adapter.
C2_HandedAtMostOnce == \A m \in Msgs : handed[m] <= 1

\* C2 witness: two messages queued by the session were flushed to the
\* Fallback adapter after the App probe failed.
C2_Witness ==
  /\ usingFallback
  /\ fallbackConnection # Null
  /\ fallbackConnection.queue = <<1, 2>>
  /\ handed[1] = 1
  /\ handed[2] = 1

\* C3: appConnection and fallbackConnection are never both present.
C3_NeverBothPresent == ~(appConnection # Null /\ fallbackConnection # Null)

\* C5: an initializeConnection run whose App probe reports the App reachable
\* ends with the App adapter as the target of sendMessage.
C5_AppChosenOnInit == [][(appUp /\ InitAppResolve) => SendTarget' = "app"]_vars

\* C6: at most one initializeConnection run is in flight, and isInitializing
\* is set exactly while one is.
C6_SingleFlight ==
  /\ initAtApp + initAtFb <= 1
  /\ isInitializing <=> (initAtApp + initAtFb = 1)

\* C6 witness: two page messages were queued while the one run is awaiting
\* its App probe.
C6_Witness ==
  /\ initAtApp = 1
  /\ pendingMessages = <<1, 2>>

\* C7: the error and close events of a socket closed through the adapter's
\* close() leave the session, its pending probes and retries and the global
\* connection state alone, and an adapter whose close event was handled has
\* its intentionalClose flag cleared.
C7_IntentionalCloseSilent ==
  /\ [](\A h \in Handles : h.c.sock = "none" => ~h.c.intentionalClose)
  /\ [][\A h \in Handles :
          (h.c.sock \in {"closing", "closingE"} /\ (SockError(h) \/ SockClose(h)))
            => UNCHANGED <<sessVars, asyncVars, globVars, portVars>>]_vars

\* C7 witness: an adapter closed while its socket was connecting has had its
\* error event handled and awaits the close event; nothing was started.
C7_Witness ==
  /\ \E c \in DOMAIN orphans : c.sock = "closing" /\ c.intentionalClose
  /\ nSwitch = 0
  /\ nRetry = 0
  /\ globalConnectionState = "unknown"
  /\ ~portOpen

\* The session runs on Fallback with an open socket and the global state
\* says so.
OnFallbackConnected ==
  /\ usingFallback
  /\ fallbackConnection # Null
  /\ fallbackConnection.sock = "open"
  /\ globalConnectionState = "connected"

\* C10: with the session connected through Fallback, a check-connection
\* request leaves and returns the state connected.
C10_CheckConnectionAgrees ==
  [][(OnFallbackConnected /\ CheckConnection)
       => globalConnectionState' = "connected"]_vars

\* C4: the messages written to an adapter's socket, followed by those still
\* in its queue, are in the order the page sent them, and so are the
\* messages the session holds.
C4_OrderPreserved ==
  /\ Increasing(pendingMessages)
  /\ \A h \in Handles : Increasing(h.c.wire \o h.c.queue)

\* C4 witness: two messages queued before the socket opened were written by
\* the open handler, in the order sent.
C4_Witness ==
  \E h \in Handles :
    /\ h.c.sock = "open"
    /\ h.c.wire = <<1, 2>>
    /\ h.c.flushed = 2

\* C8: a setConnectionState call raises the notification exactly when it
\* passes disconnected and no earlier call since the last connected one
\* (or since the start) passed disconnected.
C8_NotifyOncePerCycle ==
  \A i \in 1..Len(calls) :
    notified[i] <=>
      /\ calls[i] = "disconnected"
      /\ ~\E j \in 1..(i - 1) :
            /\ calls[j] = "disconnected"
            /\ \A k \in (j + 1)..(i - 1) : calls[k] # "connected"

\* C8 witness: disconnected, unknown, disconnected raised one notification.
C8_Witness ==
  /\ calls = <<"disconnected", "unknown", "disconnected">>
  /\ notified = <<TRUE, FALSE, FALSE>>

\* C9: a message sent while the App is still unreachable stays in
\* pendingMessages with nothing posted, and the state becomes disconnected
\* unless the App comes up first; once the App is reachable a message held
\* in pendingMessages is answered by the App and the answer posted to the
\* page, no answer is posted more than once, and no Fallback adapter is made.
C9_QueuedThenDeliveredOnce ==
  /\ [](\A m \in Msgs :
          (m < nextId /\ ~appUp)
            => (m \in SeqSet(pendingMessages) /\ posted[m] = 0))
  /\ \A m \in Msgs :
       (m < nextId /\ ~appUp) ~> (globalConnectionState = "disconnected" \/ appUp)
  /\ \A m \in Msgs :
       (m \in SeqSet(pendingMessages) /\ appUp)
         ~> (posted[m] = 1 /\ \E h \in Handles :
                                 h.c.kind = "app" /\ m \in h.c.answered)
  /\ [](\A m \in Msgs : posted[m] <= 1)
  /\ [][\A m \in Msgs : posted[m] = 1 => posted'[m] = 1]_vars
  /\ [](fallbackConnection = Null)

\* C9 witness: an initialization found both backends unreachable (its retry
\* is still pending) and the response to message 1 has been posted.
C9_Witness ==
  /\ posted[1] = 1
  /\ nRetry >= 1
  /\ appConnection # Null

\* C11: a devMode change closes and clears the session's adapters, empties
\* its queue and resets the global state to unknown without starting a
\* failover or a retry or raising the notification; and an adapter is then
\* created only by a run of initializeConnection started by a page message
\* sent after the change, that is, one whose message is still queued when
\* its App probe resolves.
C11_FreshProbeAfterDevModeChange ==
  /\ [][SettingsChange =>
          /\ appConnection' = Null /\ fallbackConnection' = Null
          /\ pendingMessages' = <<>>
          /\ globalConnectionState' = "unknown"
          /\ UNCHANGED <<nSwitch, nRetry, hasShownNotification>>]_vars
  /\ [][InitAppResolve => pendingMessages # <<>>]_vars

\* C12: once the port has disconnected the session holds no adapter, no
\* app-check timer and no activeConnections entry, and its continuations
\* leave the global connection state and the pending timers alone.
C12_NothingAfterTeardown ==
  /\ [](~portOpen =>
          /\ appConnection = Null /\ fallbackConnection = Null
          /\ ~appCheckTimer
          /\ ~activeConnections)
  /\ [][(~portOpen /\ ~CheckConnection /\ ~SettingsChange)
          => (UNCHANGED globVars /\ nRetry' <= nRetry)]_vars

\* C13: the session leaves Fallback for the App only in the step of an
\* app-check tick that found the App reachable, and that step leaves the
\* timer stopped with no tick in flight.
C13_SwitchBackOnlyOnTick ==
  [][((SendTarget = "fallback" /\ SendTarget' = "app")
        \/ (usingFallback /\ ~usingFallback'))
       => /\ tickProbe /\ appUp /\ AppCheckResolve
          /\ ~appCheckTimer' /\ ~tickProbe']_vars

\* C13 witness: switchToAppConnection has run: the Fallback adapter was
\* closed, usingFallback is cleared and the App adapter is the target.
C13_Witness ==
  /\ ~usingFallback
  /\ appConnection # Null
  /\ fallbackConnection = Null
  /\ portOpen
  /\ ~appCheckTimer
  /\ \E c \in DOMAIN orphans : c.kind = "fallback" /\ c.intentionalClose

AppOpen == appConnection # Null /\ appConnection.sock = "open"

AppHandle == [at |-> "app", c |-> appConnection]

\* C19: while the session's App adapter has an open socket, a Fallback probe
\* is started only by that socket's own error or close event, and no
\* Fallback adapter takes the App adapter's place.
C19_NoFallbackWhileAppHealthy ==
  [][AppOpen =>
       /\ (nSwitch' > nSwitch) => (SockError(AppHandle) \/ SockClose(AppHandle))
       /\ ~(fbUp /\ (SwitchFbResolve \/ InitFbResolve))]_vars

Live(c) == c.sock \in {"connecting", "open"}

\* C20: for each backend at most one adapter of the session has a socket
\* that is connecting or open, and no adapter the session has dropped its
\* reference to has one.
C20_OneLiveSocketPerBackend ==
  /\ \A h1, h2 \in Handles :
       (h1 # h2 /\ Live(h1.c) /\ Live(h2.c)) => h1.c.kind # h2.c.kind
  /\ \A c \in DOMAIN orphans : ~Live(c)

C15_TableHoldsInFlightOnly == \A id \in reqs : posted[id] = 0

\* C16: a frame that is not JSON throws nothing out of the handler and
\* starts the session's recovery (a Fallback probe or a retry).
C16_MalformedFrameRecovers ==
  /\ [](\A i \in 1..Len(frames) : ~frames[i].did.threw)
  /\ [][\A h \in Handles :
          Inbound(h, "text") => (nSwitch' > nSwitch \/ nRetry' > nRetry)]_vars

\* C17: a probe resolved true was settled by the open handler, one resolved
\* false by the error handler or the timeout, and in either case close()
\* had been called on the socket when the promise was settled.
C17_ProbeVerdict ==
  /\ probe.result = "true" => probe.first = "open"
  /\ probe.result = "false" => probe.first \in {"error", "timeout"}
  /\ probe.result # "pending" => (probe.closedBefore /\ probe.closes >= 1)

\* C17 witness: the second probe, of Fallback, resolved true on open with
\* its socket closed.
C17_Witness ==
  /\ nProbes = 2
  /\ probe.kind = "fallback"
  /\ probe.result = "true"
  /\ probe.sock = "closed"

\* C18: every probe started is eventually settled with true or false, and
\* a settled probe keeps its result whatever event arrives afterwards.
C18_ProbeSettles ==
  /\ (probe.kind # "none") ~> (probe.result \in {"true", "false"})
  /\ [][(probe.result # "pending" /\ nProbes' = nProbes)
          => probe'.result = probe.result]_vars

\* C18 witness: the timeout settled the probe false and the error event of
\* the closed socket arrived afterwards.
C18_Witness ==
  /\ probe.result = "false"
  /\ probe.first = "timeout"
  /\ probe.late = 1

\* C24: a session that has received no page message has started no probe,
\* armed no timer and created no adapter, whatever else has happened in
\* the extension; the first page message is queued and starts the first
\* initialization.
C24_LazyUntilFirstMessage ==
  [][/\ nextId = 1 =>
          /\ ~isInitializing /\ ~appCheckTimer /\ ~tickProbe
          /\ initAtApp = 0 /\ initAtFb = 0 /\ nSwitch = 0 /\ nRetry = 0
          /\ appConnection = Null /\ fallbackConnection = Null
          /\ orphans = NoOrphans
     /\ (nextId = 1 /\ PageMessage) =>
          /\ isInitializing' /\ initAtApp' = 1
          /\ pendingMessages' = <<1>>
          /\ appConnection' = Null /\ fallbackConnection' = Null]_vars

\* the first page message has just been handled
C24_Witness ==
  /\ nextId = 2 /\ isInitializing /\ initAtApp = 1
  /\ pendingMessages = <<1>> /\ portOpen
  /\ appConnection = Null /\ fallbackConnection = Null

\* C26: the step that handles a port disconnect leaves the session with no
\* App or Fallback adapter, no app-check timer, an empty pendingMessages and
\* no activeConnections entry, and every adapter it let go of has had
\* close() called on it (none keeps a connecting or open socket).
C26_TeardownPostcondition ==
  [][PortDisconnect =>
       /\ appConnection' = Null /\ fallbackConnection' = Null
       /\ ~appCheckTimer' /\ pendingMessages' = <<>>
       /\ ~activeConnections' /\ ~portOpen'
       /\ \A c \in DOMAIN orphans' :
            Live(c) => (c \in DOMAIN orphans /\ orphans'[c] = orphans[c])]_vars

\* torn down while on Fallback: its adapter was closed with its socket open
C26_Witness ==
  /\ ~portOpen /\ ~activeConnections /\ usingFallback /\ ~appCheckTimer
  /\ appConnection = Null /\ fallbackConnection = Null
  /\ pendingMessages = <<>>
  /\ \E c \in DOMAIN orphans :
       c.kind = "fallback" /\ c.intentionalClose /\ c.sock = "closing"

C28_OneRetryAfterBackoff ==
  [][/\ ((InitFbResolve \/ SwitchFbResolve) /\ ~fbUp) =>
          /\ globalConnectionState' = "disconnected"
          /\ nRetry' = nRetry + 1
          /\ UNCHANGED <<adVars, usingFallback>>
     /\ RetryFire =>
          /\ nRetry' = nRetry - 1
          /\ initAtApp' > initAtApp => ~AnyConnected
     /\ initAtApp' > initAtApp => (PageMessage \/ RetryFire)]_vars

\* both backends were found unreachable and one retry is pending
C28_Witness ==
  /\ globalConnectionState = "disconnected" /\ nRetry = 1
  /\ ~isInitializing /\ initAtApp = 0 /\ initAtFb = 0 /\ nSwitch = 0
  /\ pendingMessages = <<1>> /\ nextId = 2
  /\ appConnection = Null /\ fallbackConnection = Null

\* C29: an unintentional disconnect of a Fallback adapter starts the
\* App-first initialization in the same step and leaves the global state and
\* the retry timers alone.
C29_FallbackDisconnectReinitializes ==
  [][\A h \in Handles :
       (h.c.kind = "fallback" /\ ~Suppressed(h.c)
          /\ (SockError(h) \/ SockClose(h))) =>
         /\ initAtApp' = initAtApp + 1
         /\ UNCHANGED <<globalConnectionState, nRetry>>]_vars

\* C30: while the port is connected, the app-check timer is armed only when
\* the session is on Fallback with a Fallback adapter and no App adapter,
\* and no initialization is running.
C30_TimerOnlyOnFallback ==
  (appCheckTimer /\ portOpen) =>
    /\ usingFallback /\ fallbackConnection # Null
    /\ appConnection = Null /\ ~isInitializing

\* C21: every session whose port is still connected has the entry of its
\* tab id in activeConnections, so a devMode change reaches it.
C21_LiveSessionsRegistered ==
  \A p \in sessions : ports[p] = "connected" => registry[TabId(p)] = p

\* the values handleMessage posts for a log of handled frames: one per
\* JSON frame, in the order of arrival, carrying the frame's id and member
RECURSIVE Forwarded(_, _)
Forwarded(log, n) ==
  IF n > Len(log) THEN <<>>
  ELSE IF log[n].frame \in {"json", "jsonerr"}
       THEN <<[id |-> n,
               member |-> IF log[n].frame = "jsonerr" THEN "error"
                          ELSE "result"]>> \o Forwarded(log, n + 1)
       ELSE Forwarded(log, n + 1)

C23_UiNeverChangesState ==
  [][(\E req \in UiRequests : UiRequest(req))
       => UNCHANGED globalConnectionState]_vars

\* C23 amended: get-wallet-info, and get-connection-state while the state is
\* known, leave the global state, the notification flag and the source
\* unchanged; check-connection, and get-connection-state while the state is
\* unknown, set the state to the verdict of a probe of the App endpoint and
\* answer with it.
C23_UiChangesOnlyByProbe ==
  [][\A req \in UiRequests :
       UiRequest(req) =>
         IF \/ req = "check-connection"
            \/ req = "get-connection-state"
                 /\ globalConnectionState = "unknown"
         THEN /\ globalConnectionState' = CheckResult
              /\ uiReply'.value = CheckResult
         ELSE /\ UNCHANGED globVars
              /\ req = "get-connection-state"
                   => uiReply'.value = globalConnectionState]_vars

\* a session had set the state to connected and a check-connection, its
\* probe finding the App endpoint unreachable, changed it to disconnected
C23_Witness ==
  /\ uiReply.req = "check-connection" /\ uiReply.value = "disconnected"
  /\ globalConnectionState = "disconnected"
  /\ calls = <<"connected">>

\* C25: a session exists, and an activeConnections entry is held, only for
\* a port that has a sender and frame id 0; the devMode loop reaches only
\* such sessions.
C25_TopLevelFramesOnly ==
  /\ \A p \in sessions : HasSender(p) /\ FrameId(p) = 0
  /\ \A t \in Tabs :
       registry[t] # 0 =>
         /\ registry[t] \in sessions
         /\ TabId(registry[t]) = t
  /\ swept \subseteq sessions
  /\ sessions \subseteq {p \in Ports : ports[p] # "new"}

\* a sub-frame and a port without sender have connected and have no
\* session, while a top-level port has one
C25_Witness ==
  /\ ports[3] = "connected" /\ ports[4] = "connected"
  /\ ports[1] = "connected"
  /\ sessions = {1} /\ registry = [t \in Tabs |-> IF t = 1 THEN 1 ELSE 0]

\* C40: a checkConnection invocation calls setConnectionState at most once
\* and resolves at most once, with the state it set; once its socket is
\* done it has done both exactly once; and the step that sets the state
\* leaves the global state at the value resolved.
C40_CheckSetsAndResolvesOnce ==
  [][/\ check.sets <= 1 /\ check.resolves <= 1
     /\ check.sets = check.resolves
     /\ check.resolves = 1 => check.value = check.setTo
     /\ check.sock = "closed" => (check.sets = 1 /\ check.resolves = 1)
     /\ check'.sets > check.sets
          => globalConnectionState' = check'.value]_vars

\* the probe opened, set and resolved connected, and the close event that
\* followed its ws.close() found the invocation resolved
C40_Witness ==
  /\ check.sock = "closed" /\ check.value = "connected"
  /\ check.sets = 1 /\ check.late = 1 /\ nChecks = 2

\* C32: the open handler of any adapter writes the whole queue to the
\* socket, each message once and in enqueue order, and leaves the queue
\* empty; an adapter with an open socket has an empty queue, and a send on
\* it is written to the socket behind everything written before.
C32_FlushOnOpen ==
  \A h \in Handles :
    /\ h.c.sock = "connecting" =>
         LET c2 == AdapterOnOpen(h.c) IN
           /\ c2.wire = h.c.queue /\ c2.queue = <<>>
           /\ c2.sock = "open" /\ ~c2.isConnectingFlag
    /\ h.c.sock = "open" =>
         /\ h.c.queue = <<>>
         /\ Increasing(h.c.wire)
         /\ \A m \in Msgs :
              LET c2 == AdapterSend(h.c, m) IN
                c2.wire = Append(h.c.wire, m) /\ c2.queue = <<>>

\* message 1 was flushed from the queue by the open handler and message 2,
\* sent afterwards, was written behind it
C32_Witness ==
  \E h \in Handles :
    /\ h.c.sock = "open"
    /\ h.c.wire = <<1, 2>>
    /\ h.c.flushed = 1
    /\ h.c.queue = <<>>

\* C33: send on an adapter with no socket that is not connecting creates
\* one socket, sets the connecting flag and appends the message to the
\* queue; send on a connecting adapter only appends to the queue; a send
\* never replaces a socket that is connecting or open, and initWebSocket on
\* an adapter that holds a socket or is connecting changes nothing.
C33_SendOpensOnce ==
  \A h \in Handles : \A m \in Msgs :
    LET c == h.c
        c2 == AdapterSend(c, m)
    IN /\ (~c.ws /\ ~c.isConnectingFlag) =>
            /\ c2.ws /\ c2.isConnectingFlag /\ c2.sock = "connecting"
            /\ c2.queue = Append(c.queue, m)
       /\ c.isConnectingFlag => c2 = [c EXCEPT !.queue = Append(c.queue, m)]
       /\ c.sock \in {"connecting", "open"} =>
            /\ c.ws /\ c2.sock = c.sock /\ InitWebSocket(c) = c
       /\ InitWebSocket(InitWebSocket(c)) = InitWebSocket(c)

\* the first send created the socket and queued message 1, the second only
\* queued message 2
C33_Witness ==
  /\ appConnection # Null /\ appConnection.sock = "connecting"
  /\ appConnection.queue = <<1, 2>> /\ ~usingFallback
  /\ handed[1] = 1 /\ handed[2] = 1

\* C35: the close event that follows a socket's error event does not invoke
\* the disconnect callback a second time: it starts no further Fallback
\* probe, schedules no retry and sets no state.
C35_OneCallbackPerFailure ==
  [][\A h \in Handles :
       (h.c.sock = "errored" /\ SockClose(h)) => NoDisconnect]_vars

\* C36: usingFallback holds exactly when the Fallback adapter is the one
\* present.
C36_FlagMatchesActiveAdapter ==
  /\ usingFallback => (fallbackConnection # Null /\ appConnection = Null)
  /\ ~usingFallback => fallbackConnection = Null

\* C37: at most one retry timeout is pending.
C37_AtMostOneRetryPending == nRetry <= 1

\* C39: an adapter whose isConnected() is true has an open socket and an
\* empty queue, and is not connecting.
C39_IsConnectedMeansOpen ==
  \A h \in Handles :
    IsConnected(h.c) =>
      /\ h.c.sock = "open" /\ h.c.queue = <<>>
      /\ ~IsConnecting(h.c)

\* C31: a session that is on Fallback while the App is reachable eventually
\* has closed and dropped the Fallback adapter and holds an App adapter as
\* the adapter it sends to.
C31_FallbackHuntsForApp ==
  (usingFallback /\ fallbackConnection # Null /\ appUp)
    ~> (~usingFallback /\ fallbackConnection = Null /\ appConnection # Null
          /\ SendTarget = "app" /\ ~appCheckTimer)

\* the switch back happened: the Fallback adapter that was in use is closed
\* and let go of, and a fresh App adapter is the one sent to
C31_Witness ==
  /\ ~usingFallback /\ fallbackConnection = Null /\ ~appCheckTimer
  /\ appConnection # Null /\ appConnection.sock = "none" /\ appUp
  /\ \E c \in DOMAIN orphans :
       c.kind = "fallback" /\ c.intentionalClose /\ c.sock = "closing"

\* C34: every setConnectionState call stores the state passed and sends one
\* connection-state message carrying it, also when the state is the one
\* already stored; with or without a listener nothing is thrown, the badge
\* is set for the new state and the notification is raised by the same rule.
C34_BroadcastOnEveryCall ==
  \A i \in 1..Len(broadcasts) :
    LET b == broadcasts[i] IN
      /\ b.stored = b.state
      /\ b.sent = b.state
      /\ ~b.escaped
      /\ b.badge = (IF b.state = "disconnected" THEN "!" ELSE "")
      /\ b.notified <=>
           (b.state = "disconnected" /\ b.prev # "disconnected" /\ ~b.flag)

\* disconnected was set twice with no popup listening: both calls sent the
\* message, the first raised the notification
C34_Witness ==
  /\ Len(broadcasts) = 2
  /\ broadcasts[1].state = "disconnected" /\ ~broadcasts[1].delivered
  /\ broadcasts[1].notified
  /\ broadcasts[2].state = "disconnected" /\ ~broadcasts[2].delivered
  /\ broadcasts[2].sent = "disconnected" /\ ~broadcasts[2].notified
  /\ globalConnectionState = "disconnected"

\* C38: while the global state is disconnected no tab's session has an open
\* socket to its backend, and while some tab's session has one the global
\* state is connected.
C38_GlobalStateAgreesWithTabs ==
  /\ globalConnectionState = "disconnected"
       => \A t \in Tabs : tabSock[t].sock # "open"
  /\ (\E t \in Tabs : tabSock[t].sock = "open")
       => globalConnectionState = "connected"

====
